---- MODULE Spec2Model ----
(***************************************************************************)
(* The IR statement model (zokrates_ast/src/ir/mod.rs) and the R1CS binary *)
(* exporter (zokrates_circom/src/r1cs.rs) of ZoKrates.                     *)
(*                                                                         *)
(* Five families of behaviours are described, each with its own            *)
(* specification over the same variables:                                  *)
(*   SpecShift   shift_variable applied to pairs of variable ids           *)
(*   SpecEq      equality and hashing of pairs of statements               *)
(*   SpecPub     ProgIterator::public_inputs_values on a witness           *)
(*   SpecExport  write_r1cs on a sink that accepts every byte (Vec<u8>)    *)
(*   SpecSink    write_r1cs call by call on a sink that may fail, be       *)
(*               interrupted or accept fewer bytes than it was given       *)
(***************************************************************************)
EXTENDS Integers, Sequences, FiniteSets, TLC

VARIABLES
    prog,      \* the Prog handed to write_r1cs
    field,     \* the field T the program is over
    pc,        \* position of write_r1cs: "start", "emit" or "done"
    result,    \* "none", "Ok", "panic", or "Interrupted", "Other", "WriteZero" for Err(kind)
    sink,      \* the bytes the sink holds
    log,       \* the write calls made on the sink: what was asked, taken and returned
    ops,       \* the write requests write_r1cs still has to issue, in order
    off,       \* bytes of the head request already taken (write_all in progress)
    faults,    \* number of calls the sink did not take in full
    shiftSt,   \* SpecShift: the inputs and results of shift_variable
    eqSt,      \* SpecEq: two statements, their comparison and their hashes
    pubSt      \* SpecPub: a program, a witness and public_inputs_values' result

vars == <<prog, field, pc, result, sink, log, ops, off, faults, shiftSt, eqSt, pubSt>>

exportVars == <<prog, field, pc, result, sink, log, ops, off, faults>>

Idle == "idle"

ExportIdle ==
    /\ prog = Idle /\ field = Idle /\ pc = Idle /\ result = Idle
    /\ sink = <<>> /\ log = <<>> /\ ops = <<>> /\ off = 0 /\ faults = 0

(***************************************************************************)
(* Bounds of the checked instances.                                        *)
(***************************************************************************)
MaxId == 3          \* variable ids range over -MaxId..MaxId (and around the u32 wrap)
MaxShift == 3       \* shift = n_pub_out + n_pub_in ranges over 0..MaxShift
MaxStmts == 2       \* statements of an exported program
MaxArgs == 1        \* arguments of an exported program
MaxReturns == 1     \* return_count of an exported program
MaxFaults == 1      \* calls a faulty sink does not take in full during one export
MaxPubArgs == 2     \* arguments of a program whose public values are read
MaxOutputs == 2     \* return values held by a witness

(***************************************************************************)
(* Integer widths.  `id as u32` (r1cs.rs:153) keeps the low 32 bits of an  *)
(* isize.  The model keeps the wrap-around and scales its modulus from     *)
(* 2^32 down to 2^8, so that ids on both sides of it are integers TLC can  *)
(* hold; every count the exporter casts (term counts, wire counts, byte    *)
(* widths) stays below it, as it stays below 2^32 in the build.  The isize *)
(* arithmetic of shift_variable (64 bits) is exact for all ids modelled.   *)
(***************************************************************************)
U32Range == 256

AsU32(n) == n % U32Range

(***************************************************************************)
(* Sequence helpers.                                                       *)
(***************************************************************************)
RECURSIVE Flatten(_)
Flatten(ss) == IF ss = <<>> THEN <<>> ELSE Head(ss) \o Flatten(Tail(ss))

RECURSIVE SumSeq(_)
SumSeq(s) == IF s = <<>> THEN 0 ELSE Head(s) + SumSeq(Tail(s))

MapSeq(s, F(_)) == [i \in 1..Len(s) |-> F(s[i])]

Range(s) == {s[i] : i \in 1..Len(s)}

Min(S) == CHOOSE m \in S : \A n \in S : m <= n

\* Iteration order of a BTreeSet<u32>: ascending.
RECURSIVE Ascending(_)
Ascending(S) == IF S = {} THEN <<>> ELSE <<Min(S)>> \o Ascending(S \ {Min(S)})

\* All sequences over S of length at most n.
SeqsUpTo(S, n) == UNION {[1..k -> S] : k \in 0..n}

(***************************************************************************)
(* shift_variable (r1cs.rs:142-154).  A failed assert! panics.             *)
(***************************************************************************)
Wire(w) == [panic |-> FALSE, wire |-> w]
Panic == [panic |-> TRUE, wire |-> 0]

shift_variable(id, shift) ==
    IF id = 0 THEN Wire(AsU32(0))
    ELSE IF id > 0 THEN Wire(AsU32(id + shift))
    ELSE IF -id <= shift THEN Wire(AsU32(-id)) ELSE Panic

(***************************************************************************)
(* The data model (ir/mod.rs).  A LinComb is a sequence of terms; a        *)
(* Statement is one of four variants, held in one record shape so that     *)
(* statements of different variants can be compared.                       *)
(***************************************************************************)
Term(v, c) == [var |-> v, coeff |-> c]

QuadComb(l, r) == [left |-> l, right |-> r]

NoQuad == QuadComb(<<>>, <<>>)

\* Statement::Constraint(quad, lin, error); error is "None" or the tag of a RuntimeError
Constraint(q, l, e) ==
    [kind |-> "Constraint", quad |-> q, lin |-> l, error |-> e, stmts |-> <<>>,
     inputs |-> <<>>, outputs |-> <<>>, solver |-> "", format |-> "", exprs |-> <<>>]

\* Statement::Block(statements)
Block(ss) ==
    [kind |-> "Block", quad |-> NoQuad, lin |-> <<>>, error |-> "None", stmts |-> ss,
     inputs |-> <<>>, outputs |-> <<>>, solver |-> "", format |-> "", exprs |-> <<>>]

\* Statement::Directive(Directive {inputs, outputs, solver})
Directive(ins, outs, sol) ==
    [kind |-> "Directive", quad |-> NoQuad, lin |-> <<>>, error |-> "None", stmts |-> <<>>,
     inputs |-> ins, outputs |-> outs, solver |-> sol, format |-> "", exprs |-> <<>>]

\* Statement::Log(format, expressions)
Log(f, es) ==
    [kind |-> "Log", quad |-> NoQuad, lin |-> <<>>, error |-> "None", stmts |-> <<>>,
     inputs |-> <<>>, outputs |-> <<>>, solver |-> "", format |-> f, exprs |-> es]

\* Statement::definition (mod.rs:48-50) and Statement::constraint (mod.rs:52-54)
definition(v, q) == Constraint(q, <<Term(v, 1)>>, "None")

constraint(q, l) == Constraint(q, l, "None")

Parameter(v, p) == [id |-> v, private |-> p]

Prog(args, rc, ss) == [arguments |-> args, return_count |-> rc, statements |-> ss]

\* Prog::constraint_count (mod.rs:185-190)
constraint_count(p) ==
    Len(SelectSeq(p.statements, LAMBDA s : s.kind = "Constraint"))

(***************************************************************************)
(* The field T.  Its modulus max_value() + 1 is far beyond the integers of *)
(* the checker, so a field is given by the little-endian bytes of its      *)
(* modulus (what to_biguint().add(1).to_bytes_le() returns); coefficients  *)
(* are small field elements, converted to bytes as BigUint does.           *)
(***************************************************************************)
Bn128Field ==
    [name |-> "Bn128",
     modulus_le |-> <<1, 0, 0, 240, 147, 245, 225, 67, 145, 112, 185, 121, 72, 232, 51,
                      40, 93, 88, 129, 129, 182, 69, 80, 184, 41, 160, 49, 225, 114, 78,
                      100, 48>>]

Bw6_761Field ==
    [name |-> "Bw6_761",
     modulus_le |-> <<1, 0, 0, 0, 0, 192, 8, 133, 0, 0, 0, 48, 68, 93, 11, 23, 0, 72, 9,
                      186, 47, 98, 243, 30, 143, 19, 245, 0, 243, 217, 34, 26, 59, 73, 161,
                      108, 192, 5, 59, 198, 234, 16, 197, 23, 70, 58, 174, 1>>]

Fields == {Bn128Field, Bw6_761Field}

\* BigUint::to_bytes_le: the shortest little-endian form, one zero byte for 0
RECURSIVE to_bytes_le(_)
to_bytes_le(n) == IF n < 256 THEN <<n>> ELSE <<n % 256>> \o to_bytes_le(n \div 256)

\* byteorder's LittleEndian encoding of an unsigned integer in `width` bytes
RECURSIVE LittleEndian(_, _)
LittleEndian(n, width) ==
    IF width = 0 THEN <<>> ELSE <<n % 256>> \o LittleEndian(n \div 256, width - 1)

\* The reader's side: the unsigned integer a little-endian byte string stands for
RECURSIVE FromLittleEndian(_)
FromLittleEndian(bs) ==
    IF bs = <<>> THEN 0 ELSE Head(bs) + 256 * FromLittleEndian(Tail(bs))

(***************************************************************************)
(* Write requests.  write_r1cs is straight-line code over the sink: it is  *)
(* the sequence of the write requests it issues, each through `write` (one *)
(* call on the sink, the count it returns dropped) or through `write_all`  *)
(* (byteorder's write_u32 / write_u64).  A term whose variable fails the   *)
(* assertion of shift_variable stands in the sequence as a panic.          *)
(***************************************************************************)
Req(via, tag, bytes) == [via |-> via, tag |-> tag, bytes |-> bytes]

PanicReq == Req("panic", "panic", <<>>)

write_u32(tag, n) == Req("write_all", tag, LittleEndian(n, 4))

write_u64(tag, n) == Req("write_all", tag, LittleEndian(n, 8))

CoeffBufLen == 32

\* r1cs.rs:162-165: a 32-byte zeroed buffer, the coefficient's bytes zipped into it
PaddedCoeff(c) ==
    LET bs == to_bytes_le(c)
    IN  [i \in 1..CoeffBufLen |-> IF i <= Len(bs) THEN bs[i] ELSE 0]

\* write_lincomb (r1cs.rs:156-169)
write_term(t, shift) ==
    LET r == shift_variable(t.var, shift)
    IN  IF r.panic THEN <<PanicReq>>
        ELSE <<write_u32("wire", r.wire), Req("write", "coeff", PaddedCoeff(t.coeff))>>

write_lincomb(l, shift) ==
    <<write_u32("lc_len", AsU32(Len(l)))>>
        \o Flatten([i \in 1..Len(l) |-> write_term(l[i], shift)])

\* write_statement descending into a Block
write_statement_into_blocks(s, shift) ==
    LET one(c) == write_lincomb(c.quad.left, shift) \o write_lincomb(c.quad.right, shift)
                    \o write_lincomb(c.lin, shift)
    IN  IF s.kind = "Constraint" THEN one(s)
        ELSE IF s.kind = "Block"
             THEN Flatten([i \in 1..Len(s.stmts) |-> one(s.stmts[i])])
             ELSE <<>>

\* write_statement (r1cs.rs:128-140)
write_statement(s, shift) ==
    IF s.kind = "Constraint"
    THEN write_lincomb(s.quad.left, shift) \o write_lincomb(s.quad.right, shift)
            \o write_lincomb(s.lin, shift)
    ELSE <<>>

\* write_constraints (r1cs.rs:121-126)
write_constraints(p, shift) ==
    Flatten([i \in 1..Len(p.statements) |-> write_statement(p.statements[i], shift)])

\* write_header (r1cs.rs:19-30)
write_header(header) ==
    << write_u32("field_size", header.field_size),
       Req("write", "prime", header.prime_size),
       write_u32("n_wires", header.n_wires),
       write_u32("n_pub_out", header.n_pub_out),
       write_u32("n_pub_in", header.n_pub_in),
       write_u32("n_prv_in", header.n_prv_in),
       write_u64("n_labels", header.n_labels),
       write_u32("n_constraints", header.n_constraints) >>

\* write_table (r1cs.rs:172-177): the BTreeSet is iterated in ascending order
write_table(variables) ==
    LET vs == Ascending(variables)
    IN  [i \in 1..Len(vs) |-> write_u64("label", vs[i])]

\* The variables of a constraint, left, right, then output (r1cs.rs:45-49)
ConstraintVars(s) ==
    MapSeq(s.quad.left \o s.quad.right \o s.lin, LAMBDA t : t.var)

\* The fold of r1cs.rs:40-56: the wire set, or the panic of shift_variable
RECURSIVE WiresFold(_, _, _)
WiresFold(stmts, shift, acc) ==
    IF stmts = <<>> THEN [panic |-> FALSE, set |-> acc]
    ELSE LET s == Head(stmts)
             rs == MapSeq(ConstraintVars(s), LAMBDA v : shift_variable(v, shift))
         IN  IF s.kind # "Constraint" THEN WiresFold(Tail(stmts), shift, acc)
             ELSE IF \E i \in 1..Len(rs) : rs[i].panic
                  THEN [panic |-> TRUE, set |-> {}]
                  ELSE WiresFold(Tail(stmts), shift,
                                 acc \cup {rs[i].wire : i \in 1..Len(rs)})

\* r1cs.rs:33
modulo_byte_count(T) == AsU32(Len(T.modulus_le)) 

\* r1cs.rs:35-38
n_pub_out(p) == AsU32(p.return_count)

n_pub_in(p) == AsU32(Len(SelectSeq(p.arguments, LAMBDA a : ~a.private)))

ShiftOf(p) == n_pub_out(p) + n_pub_in(p)

\* The fold started from the empty set
WiresWithoutOne(p) == WiresFold(p.statements, ShiftOf(p), {})

\* The fold with the assertion of shift_variable compiled out
WiresUnasserted(p) ==
    LET cs == SelectSeq(p.statements, LAMBDA s : s.kind = "Constraint")
        rs == MapSeq(Flatten(MapSeq(cs, ConstraintVars)),
                     LAMBDA v : shift_variable(v, ShiftOf(p)))
    IN  [panic |-> FALSE,
         set |-> {0} \cup {rs[i].wire : i \in {j \in 1..Len(rs) : ~rs[j].panic}}]

Wires(p) == WiresFold(p.statements, ShiftOf(p), {0})

\* r1cs.rs:60-69
HeaderOf(p, T, wires) ==
    [field_size |-> modulo_byte_count(T),
     prime_size |-> T.modulus_le,
     n_wires |-> AsU32(Cardinality(wires)),
     n_pub_out |-> n_pub_out(p),
     n_pub_in |-> n_pub_in(p),
     n_prv_in |-> AsU32(Len(SelectSeq(p.arguments, LAMBDA a : a.private))),
     n_labels |-> Cardinality(wires),
     n_constraints |-> AsU32(constraint_count(p))]

\* The size of a statement with the coefficient width fixed at 32 bytes
StatementSize32(s, T) ==
    IF s.kind = "Constraint"
    THEN 3 * 4 + (Len(s.quad.left) + Len(s.quad.right) + Len(s.lin)) * (32 + 4)
    ELSE 0

\* r1cs.rs:84-96
StatementSize(s, T) ==
    IF s.kind = "Constraint"
    THEN 3 * 4 + (Len(s.quad.left) + Len(s.quad.right) + Len(s.lin))
                    * (modulo_byte_count(T) + 4)
    ELSE 0

ConstraintsSize(p, T) ==
    SumSeq([i \in 1..Len(p.statements) |-> StatementSize(p.statements[i], T)])

HeaderSectionSize == 32 + 32

\* write_r1cs from its first write on (r1cs.rs:71-118)
Emission(p, T, wires) ==
    << Req("write", "magic", <<114, 49, 99, 115>>),
       write_u32("version", 1),
       write_u32("n_sections", 3),
       write_u32("type_constraints", 2),
       write_u64("size_constraints", ConstraintsSize(p, T)) >>
    \o write_constraints(p, ShiftOf(p))
    \o << write_u32("type_header", 1),
          write_u64("size_header", HeaderSectionSize) >>
    \o write_header(HeaderOf(p, T, wires))
    \o << write_u32("type_table", 3),
          write_u64("size_table", Cardinality(wires) * 8) >>
    \o write_table(wires)

(***************************************************************************)
(* The sink.  A call write(buf) returns Ok(n) with n <= Len(buf) bytes     *)
(* taken, or Err(kind).  `log` keeps every call.                           *)
(***************************************************************************)
Call(r, asked, taken, ret) ==
    [tag |-> r.tag, via |-> r.via, asked |-> asked, bytes |-> taken, ret |-> ret]

ErrorKinds == {"Interrupted", "Other"}

IsErr(ret) == ret # "Ok"

LogBytes(l) == Flatten([i \in 1..Len(l) |-> l[i].bytes])

\* A sink that takes every byte of every call, such as the Vec<u8> of the tests
RECURSIVE RunIdeal(_, _, _)
RunIdeal(reqs, s, l) ==
    IF reqs = <<>> THEN [result |-> "Ok", sink |-> s, log |-> l]
    ELSE LET r == Head(reqs)
         IN  IF r.via = "panic" THEN [result |-> "panic", sink |-> s, log |-> l]
             ELSE RunIdeal(Tail(reqs), s \o r.bytes,
                           Append(l, Call(r, Len(r.bytes), r.bytes, "Ok")))

\* write_r1cs (r1cs.rs:32-119) on such a sink
write_r1cs(p, T) ==
    LET w == Wires(p)
    IN  IF w.panic THEN [result |-> "panic", sink |-> <<>>, log |-> <<>>]
        ELSE RunIdeal(Emission(p, T, w.set), <<>>, <<>>)

(***************************************************************************)
(* The programs exported.                                                  *)
(***************************************************************************)
One == <<Term(0, 1)>>

\* the constraint of tests::return_one: 1 * 1 == ~out_0
ReturnOne == Constraint(QuadComb(One, One), <<Term(-1, 1)>>, "None")

StatementPool ==
    { ReturnOne,
      Constraint(QuadComb(One, One), <<Term(-3, 1)>>, "SourceAssertion"),
      Constraint(QuadComb(<<Term(1, 1)>>, <<Term(1, 1), Term(2, 258)>>),
                 <<Term(-2, 1)>>, "None"),
      Constraint(QuadComb(<<>>, <<Term(0, 3)>>), <<Term(2, 1), Term(-1, 1)>>, "None"),
      Constraint(QuadComb(One, <<Term(U32Range - 1, 1)>>), <<Term(-1, 2)>>, "None"),
      Block(<<Constraint(QuadComb(One, <<Term(3, 1)>>), <<Term(-3, 1)>>, "None")>>),
      Directive(<<QuadComb(One, <<Term(1, 1)>>)>>, <<2>>, "Div"),
      Log("x is {}", <<[type |-> "field", lcs |-> <<<<Term(3, 1)>>>>]>>) }

ParameterPool == {Parameter(1, FALSE), Parameter(2, TRUE)}

Progs ==
    { Prog(args, rc, ss) : args \in SeqsUpTo(ParameterPool, MaxArgs),
                           rc \in 0..MaxReturns,
                           ss \in SeqsUpTo(StatementPool, MaxStmts) }

(***************************************************************************)
(* SpecExport: write_r1cs as one step, on a sink that takes every byte.    *)
(***************************************************************************)
ExportInit ==
    /\ shiftSt = Idle /\ eqSt = Idle /\ pubSt = Idle
    /\ prog \in Progs
    /\ field \in Fields
    /\ pc = "start" /\ result = "none"
    /\ sink = <<>> /\ log = <<>> /\ ops = <<>> /\ off = 0 /\ faults = 0

Export ==
    /\ pc = "start"
    /\ LET r == write_r1cs(prog, field)
       IN  /\ result' = r.result
           /\ sink' = r.sink
           /\ log' = r.log
    /\ pc' = "done"
    /\ UNCHANGED <<prog, field, ops, off, faults, shiftSt, eqSt, pubSt>>

ExportNext == Export

SpecExport == ExportInit /\ [][ExportNext]_vars

(***************************************************************************)
(* SpecSink: write_r1cs call by call, on a sink that may return an error,  *)
(* or take fewer bytes than it was given and return Ok.                    *)
(***************************************************************************)
SinkProgs ==
    { Prog(<<>>, 0, <<>>),
      Prog(<<>>, 1, <<ReturnOne>>),
      Prog(<<Parameter(1, FALSE)>>, 0, <<ReturnOne, Block(<<ReturnOne>>)>>),
      Prog(<<>>, 0, <<ReturnOne>>) }

SinkInit ==
    /\ shiftSt = Idle /\ eqSt = Idle /\ pubSt = Idle
    /\ prog \in SinkProgs
    /\ field \in Fields
    /\ pc = "start" /\ result = "none"
    /\ sink = <<>> /\ log = <<>> /\ ops = <<>> /\ off = 0 /\ faults = 0

\* r1cs.rs:33-71: everything before the first write
Start ==
    /\ pc = "start"
    /\ LET w == Wires(prog)
       IN  IF w.panic
           THEN /\ pc' = "done" /\ result' = "panic" /\ ops' = <<>>
           ELSE /\ pc' = "emit" /\ result' = "none"
                /\ ops' = Emission(prog, field, w.set)
    /\ UNCHANGED <<prog, field, sink, log, off, faults, shiftSt, eqSt, pubSt>>

\* What follows a completed request: the next one, the panic of a failed
\* assertion, or Ok(()) at the end of write_r1cs
Advance(rest) ==
    /\ ops' = rest
    /\ off' = 0
    /\ IF rest = <<>> THEN pc' = "done" /\ result' = "Ok"
       ELSE IF Head(rest).via = "panic" THEN pc' = "done" /\ result' = "panic"
       ELSE pc' = "emit" /\ result' = "none"

Return(ret) ==
    /\ pc' = "done" /\ result' = ret
    /\ UNCHANGED <<ops, off>>

\* `writer.write(buf)` with its Result dropped as well
AfterWriteSwallow(ret, n) == Advance(Tail(ops))

\* `writer.write(buf)?` (r1cs.rs:21, 74, 166): an error propagates, the count is dropped
AfterWrite(ret, n) ==
    IF IsErr(ret) THEN Return(ret) ELSE Advance(Tail(ops))

\* std::io::Write::write_all under write_u32 / write_u64: Ok(0) is WriteZero,
\* Interrupted is tried again, any other error propagates
AfterWriteAll(ret, n, asked) ==
    IF ret = "Interrupted" THEN UNCHANGED <<pc, result, ops, off>>
    ELSE IF IsErr(ret) THEN Return(ret)
    ELSE IF n = 0 THEN Return("WriteZero")
    ELSE IF n = asked THEN Advance(Tail(ops))
    ELSE /\ off' = off + n
         /\ UNCHANGED <<pc, result, ops>>

\* One call on the sink, which takes n bytes and returns ret
SinkCall(ret, n) ==
    LET r == Head(ops)
        buf == SubSeq(r.bytes, off + 1, Len(r.bytes))
        taken == SubSeq(buf, 1, n)
    IN  /\ sink' = sink \o taken
        /\ log' = Append(log, Call(r, Len(buf), taken, ret))
        /\ IF r.via = "write" THEN AfterWrite(ret, n)
           ELSE AfterWriteAll(ret, n, Len(buf))

Pending == Len(Head(ops).bytes) - off

WriteFull ==
    /\ pc = "emit"
    /\ SinkCall("Ok", Pending)
    /\ UNCHANGED <<prog, field, faults, shiftSt, eqSt, pubSt>>

ShortCounts == {0, 1}

WriteShort ==
    /\ pc = "emit"
    /\ faults < MaxFaults
    /\ \E n \in ShortCounts :
          /\ n < Pending
          /\ SinkCall("Ok", n)
    /\ faults' = faults + 1
    /\ UNCHANGED <<prog, field, shiftSt, eqSt, pubSt>>

WriteError ==
    /\ pc = "emit"
    /\ faults < MaxFaults
    /\ \E kind \in ErrorKinds : SinkCall(kind, 0)
    /\ faults' = faults + 1
    /\ UNCHANGED <<prog, field, shiftSt, eqSt, pubSt>>

SinkNext == Start \/ WriteFull \/ WriteShort \/ WriteError

SpecSink == SinkInit /\ [][SinkNext]_vars

(***************************************************************************)
(* Reading the exported file back from the calls the sink received.        *)
(***************************************************************************)
Tagged(t) == SelectSeq(log, LAMBDA c : c.tag = t)

Values(t) == MapSeq(Tagged(t), LAMBDA c : FromLittleEndian(c.bytes))

Value(t) == Values(t)[1]

BodyBytes(tags) == LogBytes(SelectSeq(log, LAMBDA c : c.tag \in tags))

ConstraintTags == {"lc_len", "wire", "coeff"}

HeaderTags == {"field_size", "prime", "n_wires", "n_pub_out", "n_pub_in", "n_prv_in",
               "n_labels", "n_constraints"}

TopConstraints(p) == SelectSeq(p.statements, LAMBDA s : s.kind = "Constraint")

TopVars(p) == Range(Flatten(MapSeq(TopConstraints(p), ConstraintVars)))

\* The field's canonical byte width W
W == Len(field.modulus_le)

Exported == pc = "done" /\ result = "Ok"

\* C2: for every program accepted by write_r1cs the wire-label section is the
\* enumeration, each element once and in strictly ascending order, of {0} united
\* with the shifted wire ids of all variables of the top-level constraints;
\* n_wires and n_labels both equal its number of entries and its size field
\* equals n_wires x 8.
C2_WireSection ==
    Exported =>
        LET labels == Values("label")
            S == {0} \cup {shift_variable(v, ShiftOf(prog)).wire : v \in TopVars(prog)}
        IN  /\ \A i, j \in 1..Len(labels) : i < j => labels[i] < labels[j]
            /\ Range(labels) = S
            /\ \A i \in 1..Len(labels) : Len(Tagged("label")[i].bytes) = 8
            /\ Value("n_wires") = Len(labels)
            /\ Value("n_labels") = Len(labels)
            /\ Value("size_table") = Value("n_wires") * 8

C2_Witness ==
    /\ Exported
    /\ Len(TopConstraints(prog)) = 2
    /\ Len(prog.statements) = 2
    /\ Values("label") = <<0, 1, 2, 3, 4>>

\* C3: non-Constraint statements contribute nothing to the exported file: the
\* export of a program is the export of the program with every top-level
\* Block, Directive and Log removed (nested constraints are neither exported
\* nor counted), and the remaining constraints appear in program order, each
\* as left, right, then output combination.
C3_OnlyConstraints ==
    pc = "done" =>
        LET cs == TopConstraints(prog)
            stripped == write_r1cs(Prog(prog.arguments, prog.return_count, cs), field)
            lcs == Flatten(MapSeq(cs, LAMBDA c : <<c.quad.left, c.quad.right, c.lin>>))
        IN  /\ sink = stripped.sink
            /\ result = stripped.result
            /\ result = "Ok" =>
                  /\ Value("n_constraints") = Len(cs)
                  /\ Values("lc_len") = MapSeq(lcs, Len)
                  /\ Values("wire") =
                        MapSeq(Flatten(lcs),
                               LAMBDA t : shift_variable(t.var, ShiftOf(prog)).wire)
                  /\ Len(Tagged("coeff")) = Len(Flatten(lcs))

C3_Witness ==
    /\ Exported
    /\ Len(prog.statements) = 2
    /\ prog.statements[1].kind = "Block"
    /\ prog.statements[2].kind = "Constraint"

Malformed(p) == \E v \in TopVars(p) : v < 0 /\ -v > ShiftOf(p)

\* C5: if a top-level constraint references a public variable (id < 0) whose
\* magnitude exceeds shift = n_pub_out + n_pub_in, write_r1cs aborts on the
\* assertion of shift_variable, and it does so in the sizing pass, before any
\* byte has been written to the sink.
C5_AbortBeforeWrite ==
    /\ (pc = "done" /\ Malformed(prog)) => result = "panic"
    /\ result = "panic" => (sink = <<>> /\ log = <<>> /\ Malformed(prog))

C5_Witness ==
    /\ pc = "done" /\ result = "panic"
    /\ Len(prog.statements) = 2
    /\ prog.statements[1] = ReturnOne
    /\ ShiftOf(prog) = 2

\* C9: for every program and every field byte width W, each of the three
\* sections declares a size equal to the number of bytes emitted for its body:
\* the constraints section the bytes of write_constraints, the header section
\* the bytes of write_header (4 + W + 4 + 4 + 4 + 4 + 8 + 4), the wire-label
\* section the bytes of write_table.
C9_DeclaredSizes ==
    Exported =>
        /\ Value("size_constraints") = Len(BodyBytes(ConstraintTags))
        /\ Value("size_header") = Len(BodyBytes(HeaderTags))
        /\ Value("size_header") = 4 + W + 4 + 4 + 4 + 4 + 8 + 4
        /\ Value("size_table") = Len(BodyBytes({"label"}))

\* The whole file of a program: every byte write_r1cs hands to the sink
FileBytes(p, T) ==
    LET reqs == Emission(p, T, Wires(p).set)
    IN  Flatten([i \in 1..Len(reqs) |-> reqs[i].bytes])

Retried(c) == c.via = "write_all" /\ c.ret = "Interrupted"

C10_NoByteDropped ==
    Exported => sink = FileBytes(prog, field)

(***************************************************************************)
(* Equality and hashing of Statement (mod.rs:30-43): derivative's Hash,    *)
(* PartialEq and Eq, with Hash = "ignore" on the error tag of Constraint.  *)
(* PartialEq carries no such attribute and compares every field.           *)
(***************************************************************************)
\* PartialEq that skips the error tag as Hash does
RECURSIVE StatementEqIgnoringError(_, _)
StatementEqIgnoringError(a, b) ==
    /\ a.kind = b.kind
    /\ CASE a.kind = "Block" ->
                /\ Len(a.stmts) = Len(b.stmts)
                /\ \A i \in 1..Len(a.stmts) :
                      StatementEqIgnoringError(a.stmts[i], b.stmts[i])
         [] a.kind = "Constraint" -> a.quad = b.quad /\ a.lin = b.lin
         [] a.kind = "Directive" ->
                a.inputs = b.inputs /\ a.outputs = b.outputs /\ a.solver = b.solver
         [] a.kind = "Log" -> a.format = b.format /\ a.exprs = b.exprs

\* PartialEq for Statement (mod.rs:31)
RECURSIVE StatementEq(_, _)
StatementEq(a, b) ==
    /\ a.kind = b.kind
    /\ CASE a.kind = "Block" ->
                /\ Len(a.stmts) = Len(b.stmts)
                /\ \A i \in 1..Len(a.stmts) : StatementEq(a.stmts[i], b.stmts[i])
         [] a.kind = "Constraint" ->
                a.quad = b.quad /\ a.lin = b.lin /\ a.error = b.error
         [] a.kind = "Directive" ->
                a.inputs = b.inputs /\ a.outputs = b.outputs /\ a.solver = b.solver
         [] a.kind = "Log" -> a.format = b.format /\ a.exprs = b.exprs

\* The position of a variant in the enum, which derive(Hash) feeds first
Discriminant(kind) ==
    CASE kind = "Block" -> 0 [] kind = "Constraint" -> 1
      [] kind = "Directive" -> 2 [] kind = "Log" -> 3

\* The integers a string constant of the model is hashed as
StrCode(str) ==
    CASE str = "" -> 0 [] str = "None" -> 0 [] str = "Div" -> 1 [] str = "Bits" -> 2
      [] str = "x is {}" -> 3 [] str = "field" -> 4 [] str = "SourceAssertion" -> 5
      [] str = "Euclidean" -> 6

\* What Hash feeds the hasher for a LinComb and a QuadComb: a Vec is its length,
\* then its elements
LinCombFeed(l) == <<Len(l)>> \o Flatten([i \in 1..Len(l) |-> <<l[i].var, l[i].coeff>>])

QuadCombFeed(q) == LinCombFeed(q.left) \o LinCombFeed(q.right)

\* Hash for Statement (mod.rs:31, 38): every field but the error tag
RECURSIVE HashFeed(_)
HashFeed(s) ==
    <<Discriminant(s.kind)>> \o
    CASE s.kind = "Block" ->
            <<Len(s.stmts)>> \o Flatten([i \in 1..Len(s.stmts) |-> HashFeed(s.stmts[i])])
      [] s.kind = "Constraint" -> QuadCombFeed(s.quad) \o LinCombFeed(s.lin)
      [] s.kind = "Directive" ->
            <<Len(s.inputs)>> \o Flatten([i \in 1..Len(s.inputs) |-> QuadCombFeed(s.inputs[i])])
                \o <<Len(s.outputs)>> \o s.outputs \o <<StrCode(s.solver)>>
      [] s.kind = "Log" ->
            <<StrCode(s.format), Len(s.exprs)>> \o
            Flatten([i \in 1..Len(s.exprs) |->
                        <<StrCode(s.exprs[i].type), Len(s.exprs[i].lcs)>> \o
                        Flatten(MapSeq(s.exprs[i].lcs, LinCombFeed))])

\* The caller's Hasher: a deterministic function of the integers it is fed
RECURSIVE Hasher(_, _)
Hasher(h, feed) ==
    IF feed = <<>> THEN h
    ELSE Hasher((h * 31 + (Head(feed) % 65521) + 7) % 65521, Tail(feed))

StatementHash(s) == Hasher(17, HashFeed(s))

(***************************************************************************)
(* SpecEq: two statements are compared and hashed.                         *)
(***************************************************************************)
ErrorTags == {"None", "SourceAssertion", "Euclidean"}

EqPool ==
    { Constraint(q, l, e) :
        q \in {QuadComb(One, One), QuadComb(One, <<Term(1, 1), Term(2, 258)>>)},
        l \in {<<Term(-1, 1)>>, <<Term(2, 1)>>},
        e \in ErrorTags }
    \cup { Block(<<Constraint(QuadComb(One, One), <<Term(-1, 1)>>, e)>>) : e \in ErrorTags }
    \cup { definition(2, QuadComb(One, <<Term(1, 1)>>)),
           constraint(QuadComb(One, One), <<Term(2, 1)>>),
           Directive(<<QuadComb(One, <<Term(1, 1)>>)>>, <<2>>, "Div"),
           Directive(<<QuadComb(One, <<Term(1, 1)>>)>>, <<2>>, "Bits"),
           Log("x is {}", <<[type |-> "field", lcs |-> <<<<Term(3, 1)>>>>]>>) }

EqInit ==
    /\ ExportIdle /\ shiftSt = Idle /\ pubSt = Idle
    /\ eqSt \in [a : EqPool, b : EqPool, done : {FALSE}, eq : {FALSE}, ha : {0}, hb : {0}]

Compare ==
    /\ ~eqSt.done
    /\ eqSt' = [eqSt EXCEPT !.done = TRUE,
                            !.eq = StatementEq(eqSt.a, eqSt.b),
                            !.ha = StatementHash(eqSt.a),
                            !.hb = StatementHash(eqSt.b)]
    /\ UNCHANGED <<exportVars, shiftSt, pubSt>>

EqNext == Compare

SpecEq == EqInit /\ [][EqNext]_vars

SameCombinations ==
    /\ eqSt.done
    /\ eqSt.a.kind = "Constraint" /\ eqSt.b.kind = "Constraint"
    /\ eqSt.a.quad = eqSt.b.quad /\ eqSt.a.lin = eqSt.b.lin

Returned(vs) == [panic |-> FALSE, values |-> vs]

ValuesPanic == [panic |-> TRUE, values |-> <<>>]

\* Witness::return_values: the values of the return variables ~out_0, ~out_1, ...
\* (ids -1, -2, ...) the witness holds, in return order
return_values(w) ==
    LET outs == {v \in DOMAIN w : v < 0}
    IN  [i \in 1..Cardinality(outs) |-> w[-i]]

\* public_inputs_values mapping every argument, private ones included
public_inputs_values_unfiltered(p, w) ==
    IF \E i \in 1..Len(p.arguments) : p.arguments[i].id \notin DOMAIN w
    THEN ValuesPanic
    ELSE Returned(MapSeq(p.arguments, LAMBDA a : w[a.id]) \o return_values(w))

public_inputs_values(p, w) ==
    LET pubs == SelectSeq(p.arguments, LAMBDA a : ~a.private)
    IN  IF \E i \in 1..Len(pubs) : pubs[i].id \notin DOMAIN w
        THEN ValuesPanic
        ELSE Returned(MapSeq(pubs, LAMBDA a : w[a.id]) \o return_values(w))

(***************************************************************************)
(* SpecPub: public_inputs_values of a program on a witness.                *)
(***************************************************************************)
ArgIds == {1, 2}

FieldValues == {5, 7}

Witnesses ==
    UNION { [D \cup {-i : i \in 1..r} -> FieldValues] :
                D \in SUBSET ArgIds, r \in 0..MaxOutputs }

PubInit ==
    /\ ExportIdle /\ shiftSt = Idle /\ eqSt = Idle
    /\ \E args \in SeqsUpTo({Parameter(v, b) : v \in ArgIds, b \in BOOLEAN}, MaxPubArgs),
          w \in Witnesses :
          pubSt = [p |-> Prog(args, Cardinality({v \in DOMAIN w : v < 0}), <<>>),
                   w |-> w, done |-> FALSE, res |-> ValuesPanic]

ReadPublic ==
    /\ ~pubSt.done
    /\ pubSt' = [pubSt EXCEPT !.done = TRUE,
                              !.res = public_inputs_values(pubSt.p, pubSt.w)]
    /\ UNCHANGED <<exportVars, shiftSt, eqSt>>

PubNext == ReadPublic

SpecPub == PubInit /\ [][PubNext]_vars

\* The positions of the non-private arguments, in argument order
PublicPositions(args) == {i \in 1..Len(args) : ~args[i].private}

\* C8: on a witness that assigns all non-private argument variables,
\* public_inputs_values returns the value of each non-private argument in
\* argument order (private ones skipped), followed by the witness's return
\* values in return order: arguments [(v1, public)], return_count = 1, witness
\* v1 = 5, return = 7 give [5, 7].  If a non-private argument has no witness
\* entry the call aborts and returns no vector.
C8_PublicValues ==
    pubSt.done =>
        LET args == pubSt.p.arguments
            w == pubSt.w
            pos == PublicPositions(args)
            n == Cardinality(pos)
            r == pubSt.p.return_count
            vs == pubSt.res.values
            \* the number of public arguments at or before position i
            rank(i) == Cardinality({j \in pos : j <= i})
        IN  IF \E i \in pos : args[i].id \notin DOMAIN w
            THEN pubSt.res.panic
            ELSE /\ ~pubSt.res.panic
                 /\ Len(vs) = n + r
                 /\ \A i \in pos : vs[rank(i)] = w[args[i].id]
                 /\ \A k \in 1..r : vs[n + k] = w[-k]
                 /\ (args = <<Parameter(1, FALSE)>> /\ r = 1 /\ w[1] = 5 /\ w[-1] = 7)
                        => vs = <<5, 7>>

C8_Witness ==
    /\ pubSt.done
    /\ pubSt.p.arguments = <<Parameter(2, TRUE), Parameter(1, FALSE)>>
    /\ DOMAIN pubSt.w = {1, -1, -2}
    /\ pubSt.res = Returned(<<5, 7, 5>>)

(***************************************************************************)
(* SpecShift: shift_variable on two variable ids under one shift.          *)
(***************************************************************************)
ShiftIds == (-(MaxId + 1)..MaxId) \cup ((U32Range - MaxId)..(U32Range + 1))

ShiftInit ==
    /\ ExportIdle /\ eqSt = Idle /\ pubSt = Idle
    /\ shiftSt \in [x : ShiftIds, y : ShiftIds, shift : 0..MaxShift,
                    done : {FALSE}, rx : {Panic}, ry : {Panic}]

ApplyShift ==
    /\ ~shiftSt.done
    /\ shiftSt' = [shiftSt EXCEPT !.done = TRUE,
                                  !.rx = shift_variable(shiftSt.x, shiftSt.shift),
                                  !.ry = shift_variable(shiftSt.y, shiftSt.shift)]
    /\ UNCHANGED <<exportVars, eqSt, pubSt>>

ShiftNext == ApplyShift

SpecShift == ShiftInit /\ [][ShiftNext]_vars

\* C1: for every shift and every two distinct variable ids that both pass
\* shift_variable (id 0, any id > 0, or id < 0 with -id <= shift) the shifted
\* wire ids differ: 0 maps to wire 0, negative ids into 1..shift, positive ids
\* to id + shift, strictly above shift.
C1_ShiftInjective ==
    (shiftSt.done /\ ~shiftSt.rx.panic /\ ~shiftSt.ry.panic) =>
        /\ shiftSt.x # shiftSt.y => shiftSt.rx.wire # shiftSt.ry.wire
        /\ shiftSt.x = 0 => shiftSt.rx.wire = 0
        /\ shiftSt.x < 0 => shiftSt.rx.wire \in 1..shiftSt.shift
        /\ shiftSt.x > 0 => /\ shiftSt.rx.wire = shiftSt.x + shiftSt.shift
                            /\ shiftSt.rx.wire > shiftSt.shift

====
